---- MODULE Spec2Model ----
(***************************************************************************)
(* Quest Shadowplay: the bounded overwrite buffer (RingBuffer), its        *)
(* lock-protected wrapper (SharedFrameBuffer), the trigger detector        *)
(* (InputHandler) and the save orchestration of QuestShadowplay            *)
(* (on_frame_captured / trigger_save / shutdown) with its background save  *)
(* threads.                                                                *)
(*                                                                         *)
(* A frame is modelled by its capture timestamp (a positive integer); the  *)
(* buffer is the VecDeque, front = index 1.  Time is counted in ticks of   *)
(* 500 ms.                                                                 *)
(***************************************************************************)
EXTENDS Integers, Sequences, FiniteSets, TLC

\* ---------------------------------------------------------------- bounds
\* SharedFrameBuffer::new is called in BufSpec with a duration of 0..MaxDuration
\* half seconds and a rate of 0..MaxFps frames per second.
MaxDuration == 2
MaxFps == 3
\* Most snapshot() calls between two mutations of the buffer in BufSpec.
MaxSnapCalls == 2
\* Most pushes since construction or the last clear in BufSpec.
MaxPushes == 4
\* Items pushed in BufSpec are drawn from 1..MaxItem.
MaxItem == 2
\* Frame rate of the application's configuration; with its duration of one
\* second this is also the buffer's capacity (Config::default: 10 s at 90 fps).
AppCapacity == 2
\* Most frames the application captures in one run.
MaxFrames == 3
\* Most save threads spawned in one run.
MaxSaves == 2
\* The clock runs from 0 to MaxTime ticks.
MaxTime == 1
\* In DetSpec the clock runs from 0 to MaxDetTime ticks, and the detector is
\* sampled at most MaxHoldSamples times during one hold of the combo.
MaxDetTime == 2
MaxHoldSamples == 2
\* In ClipSpec there are MaxClipSaves invocations of save_clip and the clock
\* runs from 0 to MaxClipTime ticks.
MaxClipSaves == 2
MaxClipTime == 2
\* In CapSpec a capture source is started successfully at most MaxLoops times,
\* a production loop produces at most MaxCapFrames frames while the source
\* stays active, the clock runs from 0 to MaxCapTime ticks ("MaxCapTime or
\* later" from then on), and stop() is called at most MaxStops times in a row.
MaxLoops == 2
MaxCapFrames == 2
MaxCapTime == 1
MaxStops == 2
\* In LayerSpec on_end_frame is called at most MaxLayerCalls times, each time
\* with at most MaxEyes eye textures.
MaxLayerCalls == 2
MaxEyes == 2
\* In StoreSpec the output directory holds at most MaxClips clips, of 0 to
\* MaxClipSize bytes each, modified at times 0 to MaxMtime, and the cleanup
\* target is 0 to MaxTarget bytes.
MaxClips == 3
MaxClipSize == 1
MaxMtime == 1
MaxTarget == 1
\* In PathSpec delete_clip is called with paths of at most MaxPathLen components.
MaxPathLen == 4
\* In DebSpec set_debounce_ms sets a debounce of 1 to MaxDebounce ticks.
MaxDebounce == 2
\* In RecSpec at most MaxCommands recording commands run at the same time.
MaxCommands == 3

\* ------------------------------------------------------ program constants
\* debounce_duration: 500 ms = 1 tick.
DebounceTicks == 1
\* An analog input is "pressed" above 0.9 (values are in percent).
PressThreshold == 90

\* The contexts that call into the application object: the capture context,
\* which delivers the frames, and one other.
Callers == {"capture", "ui"}
\* Identities of the background save threads, in spawn order.
SaveIds == 1..MaxSaves
\* last_trigger_time = None.
NoTime == -1

VARIABLES
    config,                 \* Config: buffer_duration_seconds (in half seconds), target_fps
    capacity,               \* RingBuffer.capacity / SharedFrameBuffer.capacity
    data,                   \* RingBuffer.data (VecDeque), oldest first
    pushed,                 \* history: the items pushed (in BufSpec: since the last clear)
    snap,                   \* the result of the last snapshot() call of BufSpec
    buf_hist,               \* history of BufSpec: the last operation, the first snapshot
                            \* since the last clear, the snapshots since the last mutation
    rw_writer,              \* RwLock: the caller holding the write guard, or "none"
    rw_readers,             \* RwLock: the save threads holding a read guard
    is_saving,              \* QuestShadowplay.is_saving
    is_running,             \* QuestShadowplay.is_running
    pc,                     \* position of each caller inside on_frame_captured / trigger_save
    borrow,                 \* who holds the &mut borrow of the application: a caller, "shutdown" or "none"
    saves,                  \* the background save threads
    current_state,          \* InputHandler.current_state
    was_pressed_last_frame, \* InputHandler.was_pressed_last_frame
    trigger_button,         \* InputHandler.trigger_button
    debounce_duration,      \* InputHandler.debounce_duration, in ticks
    last_trigger_time,      \* InputHandler.last_trigger_time
    det,                    \* history of DetSpec: what the detector was fed and what it emitted
    now,                    \* the monotonic clock
    shutdown_pc,            \* position of shutdown(): "idle", "polling", "returned"
    ts_outcome,             \* how the last trigger_save call to return ended:
                            \* "not_started" (the warn! branch), "started" or "none"
    sc,                     \* the invocations of the save_clip command
    files,                  \* the clips directory: the file stored under each name
    lost,                   \* history: the frames cleared from the buffer that were
                            \* pushed after the clearing save's snapshot
    cap_active,             \* SimulatedCapture.is_active
    loops,                  \* the production threads spawned by SimulatedCapture::start
    cap_hist,               \* history: the last call on the capture source and its result
    layer_active,           \* OpenXRLayer.is_active
    frames_captured,        \* OpenXRLayer.frames_captured
    frames_skipped,         \* OpenXRLayer.frames_skipped
    ef,                     \* the on_end_frame call of the render thread
    cf,                     \* a Config built by a caller and what was constructed from it
    clips,                  \* the .mp4 files in StorageManager.output_directory
    cu,                     \* the cleanup_to_limit call
    fsys,                   \* the files that exist, each by its location
    dc,                     \* the last delete_clip call: its path and result
    rec                     \* AppState.is_recording, the capture source and the running commands

bufVars == <<config, capacity, data, pushed, snap, buf_hist>>
lockVars == <<rw_writer, rw_readers>>
inputVars == <<current_state, was_pressed_last_frame, last_trigger_time, det, trigger_button,
               debounce_duration>>
clipVars == <<sc, files, lost>>
capVars == <<cap_active, loops, cap_hist>>
layerVars == <<layer_active, frames_captured, frames_skipped, ef>>
storeVars == <<clips, cu, fsys, dc>>
otherVars == <<clipVars, capVars, layerVars, cf, storeVars, rec>>
appVars == <<is_saving, is_running, pc, borrow, saves, shutdown_pc, ts_outcome>>
vars == <<config, capacity, data, pushed, snap, buf_hist, rw_writer, rw_readers,
          is_saving, is_running, pc, borrow, saves, current_state,
          was_pressed_last_frame, last_trigger_time, det, trigger_button, debounce_duration, now, shutdown_pc, ts_outcome,
          sc, files, lost, cap_active, loops, cap_hist,
          layer_active, frames_captured, frames_skipped, ef, cf, clips, cu, fsys, dc, rec>>

\* ------------------------------------------------------------- RingBuffer

\* VecDeque::pop_front: removes the front element; nothing to remove when empty.
PopFront(d) == IF Len(d) = 0 THEN d ELSE Tail(d)

\* RingBuffer::push with the new item put at the front (push_front for push_back).
RingPush_Front(d, cap, item) ==
    LET d1 == IF Len(d) >= cap THEN PopFront(d) ELSE d
    IN  <<item>> \o d1

\* RingBuffer::push
RingPush(d, cap, item) ==
    LET d1 == IF Len(d) >= cap THEN PopFront(d) ELSE d
    IN  Append(d1, item)

\* RingBuffer::get_all: the elements front to back.
GetAll(d) == [i \in 1..Len(d) |-> d[i]]

\* RingBuffer::is_full
IsFull(d, cap) == Len(d) >= cap

\* RingBuffer::is_empty
IsEmpty(d) == Len(d) = 0

\* clear() that keeps the newest element.
RingClear_KeepNewest(d) == IF Len(d) = 0 THEN d ELSE <<d[Len(d)]>>

\* RingBuffer::clear
RingClear(d) == <<>>

\* SharedFrameBuffer::fill_percentage: len as f32 / capacity as f32.  A finite
\* quotient is kept as the fraction num/den; 0.0/0.0 is NaN and x/0.0 is +inf.
FillPercentage(d, cap) ==
    IF cap = 0
    THEN [kind |-> IF Len(d) = 0 THEN "nan" ELSE "inf", num |-> Len(d), den |-> cap]
    ELSE [kind |-> "ratio", num |-> Len(d), den |-> cap]

\* The contents of a newly constructed buffer of capacity cap after the
\* pushes of items, in order.
RECURSIVE Replay(_, _)
Replay(items, cap) ==
    IF Len(items) = 0 THEN <<>>
    ELSE RingPush(Replay(SubSeq(items, 1, Len(items) - 1), cap), cap, items[Len(items)])

\* The last n elements of s (all of s when it has fewer).
LastN(s, n) ==
    IF Len(s) <= n THEN s ELSE [i \in 1..n |-> s[Len(s) - n + i]]

\* s is a suffix of t.
IsSuffix(s, t) == Len(s) <= Len(t) /\ s = LastN(t, Len(s))

\* ------------------------------------------------------------ InputHandler

\* InputState::default: everything at rest.
RestSample == [left_grip |-> 0, left_trigger |-> 0, right_grip |-> 0, right_trigger |-> 0]
\* The input samples fed to the detector.
Samples == { RestSample,
             [left_grip |-> 100, left_trigger |-> 100, right_grip |-> 0, right_trigger |-> 0] }

\* The samples fed to the detector in DetSpec: also the left trigger exactly at
\* the threshold, and the combo of the other hand.
DetSamples ==
    Samples \cup
    { [left_grip |-> 100, left_trigger |-> PressThreshold, right_grip |-> 0, right_trigger |-> 0],
      [left_grip |-> 0, left_trigger |-> 0, right_grip |-> 100, right_trigger |-> 100] }

\* TriggerButton; Custom stands for every Custom { description }.
TriggerButtons == {"LeftGripAndTrigger", "RightGripAndTrigger", "BothGrips", "Custom"}

\* The samples fed to the detector in ComboSpec: each analog input at rest,
\* exactly at the threshold, and fully pressed.
ComboSamples ==
    [left_grip : {0, PressThreshold, 100}, left_trigger : {0, PressThreshold, 100},
     right_grip : {0, PressThreshold, 100}, right_trigger : {0, PressThreshold, 100}]

\* is_trigger_pressed with BothGrips satisfied by either grip.
IsComboPressed_EitherGrip(button, s) ==
    CASE button = "LeftGripAndTrigger" ->
            s.left_grip > PressThreshold /\ s.left_trigger > PressThreshold
      [] button = "RightGripAndTrigger" ->
            s.right_grip > PressThreshold /\ s.right_trigger > PressThreshold
      [] button = "BothGrips" ->
            s.left_grip > PressThreshold \/ s.right_grip > PressThreshold
      [] button = "Custom" -> FALSE

\* InputHandler::is_trigger_pressed, the match on the configured combo.
IsComboPressed(button, s) ==
    CASE button = "LeftGripAndTrigger" ->
            s.left_grip > PressThreshold /\ s.left_trigger > PressThreshold
      [] button = "RightGripAndTrigger" ->
            s.right_grip > PressThreshold /\ s.right_trigger > PressThreshold
      [] button = "BothGrips" ->
            s.left_grip > PressThreshold /\ s.right_grip > PressThreshold
      [] button = "Custom" -> FALSE

\* InputHandler::is_trigger_pressed on the sample s.
IsTriggerPressed(s) == IsComboPressed(trigger_button, s)

\* check_save_triggered without the edge detection: true whenever the combo is
\* engaged and the cooldown is over.
CheckReturns_Level ==
    /\ IsTriggerPressed(current_state)
    /\ (last_trigger_time = NoTime \/ now - last_trigger_time >= debounce_duration)

\* check_save_triggered with elapsed() <= debounce_duration for <.
CheckReturns_StrictDebounce ==
    /\ IsTriggerPressed(current_state)
    /\ ~was_pressed_last_frame
    /\ (last_trigger_time = NoTime \/ now - last_trigger_time > debounce_duration)

\* check_save_triggered without the debounce check.
CheckReturns_NoDebounce ==
    /\ IsTriggerPressed(current_state)
    /\ ~was_pressed_last_frame

\* check_save_triggered: the value it returns.
CheckReturns ==
    /\ IsTriggerPressed(current_state)
    /\ ~was_pressed_last_frame
    /\ (last_trigger_time = NoTime \/ now - last_trigger_time >= debounce_duration)

\* check_save_triggered that restarts the cooldown on every rising edge, also
\* on one the debounce suppresses.
CheckEffect_RestartCooldown ==
    /\ was_pressed_last_frame' = IsTriggerPressed(current_state)
    /\ last_trigger_time' =
           IF IsTriggerPressed(current_state) /\ ~was_pressed_last_frame
           THEN now ELSE last_trigger_time
    /\ UNCHANGED <<current_state, trigger_button, debounce_duration>>

\* check_save_triggered that records the press only after the debounce check,
\* so a suppressed edge is not remembered.
CheckEffect_LateEdge ==
    /\ was_pressed_last_frame' =
           IF IsTriggerPressed(current_state) /\ ~was_pressed_last_frame /\ ~CheckReturns
           THEN was_pressed_last_frame
           ELSE IsTriggerPressed(current_state)
    /\ last_trigger_time' = IF CheckReturns THEN now ELSE last_trigger_time
    /\ UNCHANGED <<current_state, trigger_button, debounce_duration>>

\* check_save_triggered: its effect on the detector.
CheckEffect ==
    /\ was_pressed_last_frame' = IsTriggerPressed(current_state)
    /\ last_trigger_time' = IF CheckReturns THEN now ELSE last_trigger_time
    /\ UNCHANGED <<current_state, trigger_button, debounce_duration>>

\* What the detector has been fed and has emitted, as its caller sees it:
\* whether the combo was engaged on the previous sample, the samples and events
\* of the current hold, whether the hold's rising edge fell inside the cooldown,
\* the time of the last event, whether a rising edge has been suppressed since
\* that event, whether one was suppressed between the last two events, whether
\* a sample with the combo released has been fed since the last check, and
\* whether the last check found the combo engaged as at the check before though
\* it had been released in between.
NewDet == [prev_pressed |-> FALSE, emitted |-> FALSE, cycle_samples |-> 0,
           cycle_events |-> 0, in_cooldown |-> FALSE, last_event |-> NoTime,
           suppressed |-> FALSE, after_suppressed |-> FALSE,
           released_since_check |-> FALSE, missed_press |-> FALSE]

\* The history after a sample on which the combo was engaged or not (pressed)
\* and check_save_triggered returned event.
DetObserve(pressed, event) ==
    LET rising == pressed /\ ~det.prev_pressed
        cooldown == det.last_event # NoTime /\ now - det.last_event < debounce_duration
        e == IF event THEN 1 ELSE 0
    IN  [prev_pressed |-> pressed,
         emitted |-> event,
         cycle_samples |-> IF ~pressed THEN 0
                           ELSE IF rising THEN 1 ELSE det.cycle_samples + 1,
         cycle_events |-> IF ~pressed THEN 0
                          ELSE IF rising THEN e ELSE det.cycle_events + e,
         in_cooldown |-> IF ~pressed THEN FALSE
                         ELSE IF rising THEN cooldown ELSE det.in_cooldown,
         last_event |-> IF event THEN now ELSE det.last_event,
         suppressed |-> IF event THEN FALSE ELSE (det.suppressed \/ rising),
         after_suppressed |-> IF event THEN det.suppressed ELSE det.after_suppressed,
         released_since_check |-> FALSE,
         missed_press |-> pressed /\ det.prev_pressed /\ det.released_since_check]

\* ------------------------------------------------- clips directory, encoder

\* The invocations of save_clip.
ScIds == 1..MaxClipSaves
\* No filename generated.
NoName == -1
\* An invocation that has not been made: its position, its snapshot, the frames
\* pushed since its snapshot, its output path and what it returned.
NoCall == [pc |-> "idle", frames |-> <<>>, window |-> {}, name |-> NoName, result |-> "none"]

\* One second of the clock, in ticks.
TicksPerSecond == 2
\* StorageManager::generate_filename: clip_YYYYMMDD_HHMMSS.mp4 for the local time
\* t, that is, the second t falls in.
GenerateFilename(t) == t \div TicksPerSecond
\* The names generate_filename can produce while the clock runs.
FileNames == 0..(MaxClipTime \div TicksPerSecond)

\* No file of that name.  A file is the sequence of fields written to it;
\* source remembers the frames it was encoded from.
NoFile == [exists |-> FALSE, bytes |-> <<>>, source |-> <<>>]
\* Mp4Muxer::finalize: File::create, then b"MP4_PLACEHOLDER" and the frame count
\* as u32, little-endian (a snapshot is far shorter than 2^32 frames).
EncodedFile(frames) ==
    [exists |-> TRUE, bytes |-> <<"MP4_PLACEHOLDER", Len(frames)>>, source |-> frames]

\* The elements of a sequence.
Range(s) == {s[k] : k \in 1..Len(s)}

\* The container's header fields: magic+version tag, frame_count, width,
\* height, rate; the frame records follow, one field each here.
HeaderFields == 5
ContainerMagic == "magic+version"
ReadError(e) == [ok |-> FALSE, error |-> e, frames |-> <<>>]
\* read(source): MalformedHeader for a file shorter than the header or with
\* another tag, TruncatedRecord when frame_count records are not all there,
\* otherwise the frames in file order.
ContainerRead(bytes) ==
    IF Len(bytes) < HeaderFields THEN ReadError("MalformedHeader")
    ELSE IF bytes[1] # ContainerMagic THEN ReadError("MalformedHeader")
    ELSE IF Len(bytes) - HeaderFields < bytes[2] THEN ReadError("TruncatedRecord")
    ELSE [ok |-> TRUE, error |-> "none",
          frames |-> SubSeq(bytes, HeaderFields + 1, HeaderFields + bytes[2])]

\* -------------------------------------------------------- SimulatedCapture

\* History of the calls on the capture source: the last call and its result,
\* and the number of stop() calls since the last start().
NoCalls == [last |-> "none", stops |-> 0]

\* The production threads, in spawn order.
LoopIds == 1..MaxLoops
\* frame_duration, Duration::from_micros(1_000_000 / fps), in ticks.
CapInterval == 2
\* A thread not spawned: its position, frame_number, start_time, the instant
\* its sleep ends, and (history) the length of that sleep and the on_frame
\* calls it has made since stop() was last called.
NoLoop == [pc |-> "none", frame_number |-> 0, start_time |-> 0, wake |-> 0,
           slept |-> 0, after_stop |-> 0]

\* ------------------------------------------------------------- OpenXRLayer

XR_SUCCESS == 0
\* An XrResult that is not XR_SUCCESS.
XR_FAILURE == -1
\* What capture_eye_frame returns for an eye texture.
EyeOutcomes == {"Ok", "Err"}
\* frame_data.eye_textures, each texture given by what capturing it returns.
RECURSIVE SeqsUpTo(_, _)
SeqsUpTo(S, n) ==
    IF n = 0 THEN {<<>>}
    ELSE LET shorter == SeqsUpTo(S, n - 1)
         IN  shorter \cup {Append(s, x) : s \in {q \in shorter : Len(q) = n - 1}, x \in S}
EyeTextures == SeqsUpTo(EyeOutcomes, MaxEyes)
\* No on_end_frame call in progress: its position, its eye_textures, the number
\* of textures it has handled, and (history) the number of calls that have
\* returned, what the last one returned and whether it found the layer active.
NoEndFrame == [pc |-> "idle", textures |-> <<>>, eye_index |-> 0,
               calls |-> 0, result |-> XR_SUCCESS, entered |-> FALSE]

\* ------------------------------------------------------------------ Config
\* A Config is its buffer_duration_seconds (in half seconds), target_fps and
\* video_bitrate.

\* Config::validate's limits: 5.0 and 60.0 seconds, 30 and 144 frames per
\* second, 1_000_000 and 100_000_000 bits per second.
MinDurationHalfSeconds == 10
MaxDurationHalfSeconds == 120
MinTargetFps == 30
MaxTargetFps == 144
MinBitrate == 1000000
MaxBitrate == 100000000

\* Config::default
DefaultConfig == [buffer_duration_seconds |-> 20, target_fps |-> 90, video_bitrate |-> 20000000]

\* Config::validate: the errors it returns.
Validate(cfg) ==
    {e \in {"BufferTooShort"} : cfg.buffer_duration_seconds < MinDurationHalfSeconds}
    \cup {e \in {"BufferTooLong"} : cfg.buffer_duration_seconds > MaxDurationHalfSeconds}
    \cup {e \in {"InvalidFps"} : cfg.target_fps < MinTargetFps \/ cfg.target_fps > MaxTargetFps}
    \cup {e \in {"BitrateTooLow"} : cfg.video_bitrate < MinBitrate}
    \cup {e \in {"BitrateTooHigh"} : cfg.video_bitrate > MaxBitrate}

\* The configurations a caller builds: each field at its default, at each
\* limit and just outside each limit.
ConfigInputs ==
    [buffer_duration_seconds : {MinDurationHalfSeconds - 1, MinDurationHalfSeconds,
                                DefaultConfig.buffer_duration_seconds,
                                MaxDurationHalfSeconds, MaxDurationHalfSeconds + 1},
     target_fps : {MinTargetFps - 1, MinTargetFps, DefaultConfig.target_fps,
                   MaxTargetFps, MaxTargetFps + 1},
     video_bitrate : {MinBitrate - 1, MinBitrate, DefaultConfig.video_bitrate,
                      MaxBitrate, MaxBitrate + 1}]

\* Nothing built, validated or constructed yet.
\* The recording commands of the UI: each is idle, or a start_recording or
\* stop_recording that has passed its test of the flag and is before its call
\* of the capture source or before its store of the flag.
CmdIds == 1..MaxCommands

\* AppState::new: is_recording false; the capture source has not been started.
NewRec == [is_recording |-> FALSE, capture_active |-> FALSE,
           cmd |-> [c \in CmdIds |-> "idle"], result |-> "none"]

NoConf == [has_input |-> FALSE, input |-> DefaultConfig,
           validated |-> FALSE, errors |-> {},
           buffer |-> [exists |-> FALSE, capacity |-> 0],
           app |-> [exists |-> FALSE, config |-> DefaultConfig, capacity |-> 0]]

\* ---------------------------------------------------------- StorageManager

\* The clips a directory can hold: file name, size_bytes, modified_time.
ClipNames == 1..MaxClips
ClipInfos == [name : ClipNames, size_bytes : 0..MaxClipSize, modified_time : 0..MaxMtime]

\* StorageManager::total_storage_used: the sum of size_bytes over list_clips().
RECURSIVE TotalStorageUsed(_)
TotalStorageUsed(S) ==
    IF S = {} THEN 0
    ELSE LET c == CHOOSE x \in S : TRUE
         IN  c.size_bytes + TotalStorageUsed(S \ {c})

\* list_clips().first(): a clip list_clips can put first, its sort being by
\* modified_time, newest first, and stable over the directory's own order.
Newest(S) == {c \in S : \A x \in S : x.modified_time <= c.modified_time}
\* list_clips().last(): a clip list_clips can put last.
Oldest(S) == {c \in S : \A x \in S : c.modified_time <= x.modified_time}

\* StorageManager.output_directory, as path components.
OutputDirectory == <<"sdcard", "clips">>
\* The path components delete_clip is called with.
PathComponents == {"sdcard", "clips", "..", "clip.mp4"}
\* The paths delete_clip is called with.
Paths == UNION {[1..n -> PathComponents] : n \in 1..MaxPathLen}
\* Path::starts_with: base's components are a prefix of path's, compared as
\* written.
StartsWith(path, base) ==
    /\ Len(path) >= Len(base)
    /\ SubSeq(path, 1, Len(base)) = base
\* The location the file system resolves an absolute path to: each ".." drops
\* the component before it (the root is its own parent).
RECURSIVE Resolve(_)
Resolve(path) ==
    IF path = <<>> THEN <<>>
    ELSE LET front == Resolve(SubSeq(path, 1, Len(path) - 1))
             last == path[Len(path)]
         IN  IF last = ".."
             THEN IF front = <<>> THEN <<>> ELSE SubSeq(front, 1, Len(front) - 1)
             ELSE Append(front, last)
\* The files present before any delete_clip call: one in the output
\* directory, one beside it.
InitialFiles == {<<"sdcard", "clips", "clip.mp4">>, <<"sdcard", "clip.mp4">>}

\* No cleanup_to_limit call yet: its position, target_bytes, deleted, and
\* (history) the clips it removed, in order, and the number it found.
NoCleanup == [pc |-> "idle", target_bytes |-> 0, deleted |-> 0, order |-> <<>>,
              found |-> 0, result |-> "none"]

\* --------------------------------------------------------------- BufSpec
\* The buffer alone, driven sequentially, constructed from every configuration
\* in Configs (capacities from 0 up).

NoSave == [pc |-> "none", frames |-> <<>>, at_request |-> <<>>, result |-> "none"]

AppInit ==
    /\ rw_writer = "none"
    /\ rw_readers = {}
    /\ is_saving = FALSE
    /\ is_running = TRUE
    /\ pc = [c \in Callers |-> "idle"]
    /\ borrow = "none"
    /\ saves = [s \in SaveIds |-> NoSave]
    /\ current_state = RestSample
    /\ was_pressed_last_frame = FALSE
    /\ trigger_button = "LeftGripAndTrigger"
    /\ debounce_duration = DebounceTicks
    /\ last_trigger_time = NoTime
    /\ det = NewDet
    /\ now = 0
    /\ shutdown_pc = "idle"
    /\ ts_outcome = "none"
    /\ sc = [i \in ScIds |-> NoCall]
    /\ files = [name \in FileNames |-> NoFile]
    /\ lost = {}
    /\ cap_active = FALSE
    /\ loops = [l \in LoopIds |-> NoLoop]
    /\ cap_hist = NoCalls
    /\ layer_active = TRUE
    /\ frames_captured = 0
    /\ frames_skipped = 0
    /\ ef = NoEndFrame
    /\ cf = NoConf
    /\ clips = {}
    /\ cu = NoCleanup
    /\ fsys = InitialFiles
    /\ dc = [path |-> <<>>, result |-> "none"]
    /\ rec = NewRec

\* SharedFrameBuffer::new with the product truncated instead of rounded up.
NewCapacity_Trunc(cfg) == (cfg.buffer_duration_seconds * cfg.target_fps) \div 2

\* SharedFrameBuffer::new: (duration_seconds * fps as f32).ceil() as usize, the
\* duration being cfg.buffer_duration_seconds half seconds.
NewCapacity(cfg) == (cfg.buffer_duration_seconds * cfg.target_fps + 1) \div 2

\* The configurations BufSpec constructs a buffer from.
Configs == [buffer_duration_seconds : 0..MaxDuration, target_fps : 0..MaxFps]

\* No operation yet, no snapshot taken.
NewHist == [op |-> "new", first_snap |-> <<>>, snap_calls |-> 0]

BufInit ==
    /\ config \in Configs
    /\ capacity = NewCapacity(config)
    /\ data = <<>>
    /\ pushed = <<>>
    /\ snap = <<>>
    /\ buf_hist = NewHist
    /\ AppInit

\* SharedFrameBuffer::push_frame, called with no other thread around.
BufPush(item) ==
    /\ Len(pushed) < MaxPushes
    /\ data' = RingPush(data, capacity, item)
    /\ pushed' = Append(pushed, item)
    /\ buf_hist' = [buf_hist EXCEPT !.op = "push", !.snap_calls = 0]
    /\ UNCHANGED <<otherVars, config, capacity, snap, lockVars, inputVars, appVars, now>>

\* snapshot() that drains the buffer.
BufSnapshot_Drain ==
    /\ buf_hist.snap_calls < MaxSnapCalls
    /\ snap' = GetAll(data)
    /\ data' = <<>>
    /\ buf_hist' = [op |-> "snapshot",
                    first_snap |-> IF buf_hist.first_snap = <<>>
                                   THEN <<GetAll(data)>> ELSE buf_hist.first_snap,
                    snap_calls |-> buf_hist.snap_calls + 1]
    /\ UNCHANGED <<otherVars, config, capacity, pushed, lockVars, inputVars, appVars, now>>

\* SharedFrameBuffer::snapshot
BufSnapshot ==
    /\ buf_hist.snap_calls < MaxSnapCalls
    /\ snap' = GetAll(data)
    /\ buf_hist' = [op |-> "snapshot",
                    first_snap |-> IF buf_hist.first_snap = <<>>
                                   THEN <<GetAll(data)>> ELSE buf_hist.first_snap,
                    snap_calls |-> buf_hist.snap_calls + 1]
    /\ UNCHANGED <<otherVars, config, capacity, data, pushed, lockVars, inputVars, appVars, now>>

\* SharedFrameBuffer::clear
BufClear ==
    /\ data' = RingClear(data)
    /\ pushed' = <<>>
    /\ buf_hist' = [NewHist EXCEPT !.op = "clear"]
    /\ UNCHANGED <<otherVars, config, capacity, snap, lockVars, inputVars, appVars, now>>

BufNext ==
    \/ \E item \in 1..MaxItem : BufPush(item)
    \/ BufSnapshot
    \/ BufClear

BufSpec == BufInit /\ [][BufNext]_vars

\* ------------------------------------------------------------------ Spec
\* The application: callers of on_frame_captured / trigger_save / shutdown,
\* the background save threads, the detector's input and the clock.

Init ==
    /\ config = [buffer_duration_seconds |-> 2, target_fps |-> AppCapacity]
    /\ capacity = NewCapacity(config)
    /\ data = <<>>
    /\ pushed = <<>>
    /\ snap = <<>>
    /\ buf_hist = NewHist
    /\ AppInit

InTriggerSave(c) == pc[c] \in {"ts_load", "ts_store", "ts_spawn"}

\* Save threads spawned so far plus the requests that may still spawn one.
SavesUsed ==
    Cardinality({s \in SaveIds : saves[s].pc # "none"})
    + Cardinality({c \in Callers : InTriggerSave(c)})

\* The save threads that have been spawned and have not finished.
InFlight == {s \in SaveIds : saves[s].pc \in {"spawned", "reading", "encode", "release"}}

\* A function returns: the caller is idle again and gives back its &mut borrow.
Return(c) ==
    /\ pc' = [pc EXCEPT ![c] = "idle"]
    /\ borrow' = IF borrow = c THEN "none" ELSE borrow

\* on_frame_captured(&mut self, frame) is entered: the exclusive borrow is taken.
OfcBegin(c) ==
    /\ c = "capture"
    /\ borrow = "none"
    /\ \A d \in Callers : pc[d] = "idle"
    /\ Len(pushed) < MaxFrames
    /\ SavesUsed < MaxSaves
       \/ ~(IsTriggerPressed(current_state) /\ ~was_pressed_last_frame)
    /\ borrow' = c
    /\ pc' = [pc EXCEPT ![c] = "ofc_lock"]
    /\ UNCHANGED <<otherVars, bufVars, lockVars, inputVars, is_saving, is_running, saves,
                   shutdown_pc, ts_outcome, now>>

\* push_frame: self.inner.write() is granted when nobody reads or writes.
PushAcquire(c) ==
    /\ pc[c] = "ofc_lock"
    /\ rw_writer = "none"
    /\ rw_readers = {}
    /\ rw_writer' = c
    /\ pc' = [pc EXCEPT ![c] = "ofc_write"]
    /\ UNCHANGED <<otherVars, bufVars, rw_readers, inputVars, is_saving, is_running, borrow,
                   saves, shutdown_pc, ts_outcome, now>>

\* push_frame: buffer.push(frame) under the write guard, which is then dropped.
PushWrite(c) ==
    /\ pc[c] = "ofc_write"
    /\ data' = RingPush(data, capacity, Len(pushed) + 1)
    /\ pushed' = Append(pushed, Len(pushed) + 1)
    /\ rw_writer' = "none"
    /\ pc' = [pc EXCEPT ![c] = "ofc_check"]
    /\ UNCHANGED <<otherVars, config, capacity, snap, buf_hist, rw_readers, inputVars, is_saving, is_running,
                   borrow, saves, shutdown_pc, ts_outcome, now>>

\* on_frame_captured: if self.input_handler.check_save_triggered() { self.trigger_save() }
OfcCheck(c) ==
    /\ pc[c] = "ofc_check"
    /\ CheckEffect
    /\ IF CheckReturns
       THEN pc' = [pc EXCEPT ![c] = "ts_load"] /\ UNCHANGED borrow
       ELSE Return(c)
    /\ UNCHANGED <<otherVars, bufVars, lockVars, det, is_saving, is_running, saves, shutdown_pc,
                   ts_outcome, now>>

\* trigger_save(&self) called directly (examples/demo.rs), under a shared borrow.
TsCall(c) ==
    /\ borrow = "none"
    /\ pc[c] = "idle"
    /\ SavesUsed < MaxSaves
    /\ pc' = [pc EXCEPT ![c] = "ts_load"]
    /\ UNCHANGED <<otherVars, bufVars, lockVars, inputVars, is_saving, is_running, borrow,
                   saves, shutdown_pc, ts_outcome, now>>

\* trigger_save without the early return: the flag is read and ignored.
TsLoad_NoCheck(c) ==
    /\ pc[c] = "ts_load"
    /\ pc' = [pc EXCEPT ![c] = "ts_store"]
    /\ UNCHANGED <<otherVars, bufVars, lockVars, inputVars, is_saving, is_running, borrow, saves,
                   shutdown_pc, ts_outcome, now>>

\* trigger_save: if self.is_saving.load(SeqCst) { return; }
TsLoad(c) ==
    /\ pc[c] = "ts_load"
    /\ IF is_saving
       THEN Return(c) /\ ts_outcome' = "not_started"
       ELSE pc' = [pc EXCEPT ![c] = "ts_store"] /\ UNCHANGED <<borrow, ts_outcome>>
    /\ UNCHANGED <<otherVars, bufVars, lockVars, inputVars, is_saving, is_running, saves,
                   shutdown_pc, now>>

\* trigger_save: self.is_saving.store(true, SeqCst)
TsStore(c) ==
    /\ pc[c] = "ts_store"
    /\ is_saving' = TRUE
    /\ pc' = [pc EXCEPT ![c] = "ts_spawn"]
    /\ UNCHANGED <<otherVars, bufVars, lockVars, inputVars, is_running, borrow, saves,
                   shutdown_pc, ts_outcome, now>>

\* The save thread the next thread::spawn creates.
NextSave == CHOOSE s \in SaveIds : saves[s].pc = "none" /\ \A r \in 1..(s - 1) : saves[r].pc # "none"

\* trigger_save: thread::spawn(move || ...), then the function returns.
\* at_request remembers the buffer contents at that moment.
TsSpawn(c) ==
    /\ pc[c] = "ts_spawn"
    /\ saves' = [saves EXCEPT ![NextSave] =
                    [pc |-> "spawned", frames |-> <<>>, at_request |-> data,
                     result |-> "none"]]
    /\ Return(c)
    /\ ts_outcome' = "started"
    /\ UNCHANGED <<otherVars, bufVars, lockVars, inputVars, is_saving, is_running,
                   shutdown_pc, now>>

\* Save thread, buffer.snapshot(): self.inner.read() is granted when nobody writes.
SnapAcquire(s) ==
    /\ saves[s].pc = "spawned"
    /\ rw_writer = "none"
    /\ rw_readers' = rw_readers \cup {s}
    /\ saves' = [saves EXCEPT ![s].pc = "reading"]
    /\ UNCHANGED <<otherVars, bufVars, rw_writer, inputVars, is_saving, is_running, pc, borrow,
                   shutdown_pc, ts_outcome, now>>

\* snapshot() whose read guard outlives the call (held while encoding).
SnapRead_KeepGuard(s) ==
    /\ saves[s].pc = "reading"
    /\ saves' = [saves EXCEPT ![s].pc = "encode", ![s].frames = GetAll(data)]
    /\ UNCHANGED <<otherVars, bufVars, lockVars, inputVars, is_saving, is_running, pc, borrow,
                   shutdown_pc, ts_outcome, now>>

\* snapshot() that moves the frames out of the buffer instead of cloning them.
SnapRead_Drain(s) ==
    /\ saves[s].pc = "reading"
    /\ saves' = [saves EXCEPT ![s].pc = "encode", ![s].frames = GetAll(data)]
    /\ rw_readers' = rw_readers \ {s}
    /\ data' = <<>>
    /\ UNCHANGED <<otherVars, config, capacity, pushed, snap, buf_hist, rw_writer, inputVars, is_saving, is_running,
                   pc, borrow, shutdown_pc, ts_outcome, now>>

\* Save thread, buffer.snapshot(): get_all() is cloned and the read guard dropped.
SnapRead(s) ==
    /\ saves[s].pc = "reading"
    /\ saves' = [saves EXCEPT ![s].pc = "encode", ![s].frames = GetAll(data)]
    /\ rw_readers' = rw_readers \ {s}
    /\ UNCHANGED <<otherVars, bufVars, rw_writer, inputVars, is_saving, is_running, pc, borrow,
                   shutdown_pc, ts_outcome, now>>

\* VideoEncoder::encode_frames: Ok(()) at once for no frames; otherwise decoding
\* or writing the file may fail.
EncodeOutcomes(frames) == IF Len(frames) = 0 THEN {"ok"} ELSE {"ok", "err"}

\* A save thread that has its outcome r and nothing else left to carry.
Finishing(stage, r) == [pc |-> stage, frames |-> <<>>, at_request |-> <<>>, result |-> r]

\* The save thread clearing the buffer once encode_frames has returned,
\* whatever it returned.
Encode_ClearsBuffer(s) ==
    /\ saves[s].pc = "encode"
    /\ \E r \in EncodeOutcomes(saves[s].frames) :
          saves' = [saves EXCEPT ![s] = Finishing("release", r)]
    /\ data' = RingClear(data)
    /\ UNCHANGED <<otherVars, config, capacity, pushed, snap, buf_hist, lockVars, inputVars, is_saving,
                   is_running, pc, borrow, shutdown_pc, ts_outcome, now>>

\* Save thread: generate_filename and match VideoEncoder::encode_frames(...),
\* which consumes the snapshot.
Encode(s) ==
    /\ saves[s].pc = "encode"
    /\ \E r \in EncodeOutcomes(saves[s].frames) :
          saves' = [saves EXCEPT ![s] = Finishing("release", r)]
    /\ UNCHANGED <<otherVars, bufVars, lockVars, inputVars, is_saving, is_running, pc, borrow,
                   shutdown_pc, ts_outcome, now>>

\* The flag released in the Ok arm only.
SaveRelease_OnlyOnOk(s) ==
    /\ saves[s].pc = "release"
    /\ is_saving' = IF saves[s].result = "ok" THEN FALSE ELSE is_saving
    /\ saves' = [saves EXCEPT ![s] = Finishing("done", saves[s].result)]
    /\ UNCHANGED <<otherVars, bufVars, lockVars, inputVars, is_running, pc, borrow,
                   shutdown_pc, ts_outcome, now>>

\* Save thread: is_saving.store(false, SeqCst), after either arm of the match.
SaveRelease(s) ==
    /\ saves[s].pc = "release"
    /\ is_saving' = FALSE
    /\ saves' = [saves EXCEPT ![s] = Finishing("done", saves[s].result)]
    /\ UNCHANGED <<otherVars, bufVars, lockVars, inputVars, is_running, pc, borrow,
                   shutdown_pc, ts_outcome, now>>

\* shutdown(&mut self): self.is_running.store(false), then the wait loop is entered.
ShutdownBegin ==
    /\ shutdown_pc = "idle"
    /\ borrow = "none"
    /\ \A c \in Callers : pc[c] = "idle"
    /\ is_running' = FALSE
    /\ borrow' = "shutdown"
    /\ shutdown_pc' = "polling"
    /\ UNCHANGED <<otherVars, bufVars, lockVars, inputVars, is_saving, pc, saves, ts_outcome, now>>

\* shutdown: while self.is_saving.load(SeqCst) { sleep(100ms) } is left.
ShutdownReturn ==
    /\ shutdown_pc = "polling"
    /\ ~is_saving
    /\ shutdown_pc' = "returned"
    /\ borrow' = "none"
    /\ UNCHANGED <<otherVars, bufVars, lockVars, inputVars, is_saving, is_running, pc, saves,
                   ts_outcome, now>>

\* InputHandler::update(new_state), through the owner's exclusive borrow.
UpdateInput(sample) ==
    /\ borrow = "none"
    /\ \A c \in Callers : pc[c] = "idle"
    /\ sample # current_state
    /\ current_state' = sample
    /\ UNCHANGED <<otherVars, bufVars, lockVars, was_pressed_last_frame, last_trigger_time, det,
                   trigger_button, debounce_duration,
                   appVars, now>>

\* The monotonic clock advances.  A call into the application takes far less
\* than a tick, and only check_save_triggered reads the clock, so a tick inside
\* a call is the same as one just before or after it.
Tick ==
    /\ now < MaxTime
    /\ \A c \in Callers : pc[c] = "idle"
    /\ now' = now + 1
    /\ UNCHANGED <<otherVars, bufVars, lockVars, inputVars, appVars>>

CallerStep(c) ==
    \/ OfcBegin(c)
    \/ PushAcquire(c)
    \/ PushWrite(c)
    \/ OfcCheck(c)
    \/ TsCall(c)
    \/ TsLoad(c)
    \/ TsStore(c)
    \/ TsSpawn(c)

SaveStep(s) ==
    \/ SnapAcquire(s)
    \/ SnapRead(s)
    \/ Encode(s)
    \/ SaveRelease(s)

Next ==
    \/ \E c \in Callers : CallerStep(c)
    \/ \E s \in SaveIds : SaveStep(s)
    \/ ShutdownBegin
    \/ ShutdownReturn
    \/ \E sample \in Samples : UpdateInput(sample)
    \/ Tick

Spec == Init /\ [][Next]_vars

\* A spawned thread keeps running and a function that was entered runs on to
\* its return; a lock guard is held for one step only, so a thread waiting for
\* the RwLock gets it.
Fairness ==
    /\ \A s \in SaveIds :
          WF_vars(SaveStep(s))
    /\ \A c \in Callers :
          WF_vars(PushAcquire(c) \/ PushWrite(c) \/ OfcCheck(c)
                  \/ TsLoad(c) \/ TsStore(c) \/ TsSpawn(c))

FairSpec == Init /\ [][Next]_vars /\ Fairness

\* -------------------------------------------------------------- LateSpec
\* The application from the state in which one save thread is still encoding
\* and the saving flag is false: two trigger_save calls have both started a
\* save on the empty buffer and the other save thread has finished and
\* released the flag.

LateInit ==
    /\ config = [buffer_duration_seconds |-> 2, target_fps |-> AppCapacity]
    /\ capacity = NewCapacity(config)
    /\ data = <<>>
    /\ pushed = <<>>
    /\ snap = <<>>
    /\ buf_hist = NewHist
    /\ rw_writer = "none"
    /\ rw_readers = {}
    /\ is_saving = FALSE
    /\ is_running = TRUE
    /\ pc = [c \in Callers |-> "idle"]
    /\ borrow = "none"
    /\ saves = [s \in SaveIds |->
                  IF s = 1
                  THEN [pc |-> "encode", frames |-> <<>>, at_request |-> <<>>, result |-> "none"]
                  ELSE NoSave]
    /\ shutdown_pc = "idle"
    /\ ts_outcome = "started"
    /\ now = 0
    /\ current_state = RestSample
    /\ was_pressed_last_frame = FALSE
    /\ trigger_button = "LeftGripAndTrigger"
    /\ debounce_duration = DebounceTicks
    /\ last_trigger_time = NoTime
    /\ det = NewDet
    /\ sc = [i \in ScIds |-> NoCall]
    /\ files = [name \in FileNames |-> NoFile]
    /\ lost = {}
    /\ cap_active = FALSE
    /\ loops = [l \in LoopIds |-> NoLoop]
    /\ cap_hist = NoCalls
    /\ layer_active = TRUE
    /\ frames_captured = 0
    /\ frames_skipped = 0
    /\ ef = NoEndFrame
    /\ cf = NoConf
    /\ clips = {}
    /\ cu = NoCleanup
    /\ fsys = InitialFiles
    /\ dc = [path |-> <<>>, result |-> "none"]
    /\ rec = NewRec

LateSpec == LateInit /\ [][Next]_vars

\* --------------------------------------------------------------- DetSpec
\* The trigger detector alone: its owner feeds it samples (update) and asks
\* it for events (check_save_triggered) while the clock runs.

\* InputHandler::check_save_triggered, called by the handler's owner.
DetCheck ==
    /\ IsTriggerPressed(current_state) => det.cycle_samples < MaxHoldSamples
    /\ CheckEffect
    /\ det' = DetObserve(IsTriggerPressed(current_state), CheckReturns)
    /\ UNCHANGED <<otherVars, bufVars, lockVars, appVars, now>>

\* The monotonic clock advances.
DetTick ==
    /\ now < MaxDetTime
    /\ now' = now + 1
    /\ UNCHANGED <<otherVars, bufVars, lockVars, inputVars, appVars>>

DetNext ==
    \/ \E sample \in DetSamples : UpdateInput(sample)
    \/ DetCheck
    \/ DetTick

DetSpec == Init /\ [][DetNext]_vars

\* -------------------------------------------------------------- ClipSpec
\* The desktop application: the capture callback pushes frames into the shared
\* buffer while save_clip commands, each on its own worker, snapshot it,
\* encode the snapshot to a file and clear the buffer.

\* The capture callback of start_recording: buffer.push_frame(frame).
ClipPush ==
    /\ Len(pushed) < MaxFrames
    /\ data' = RingPush(data, capacity, Len(pushed) + 1)
    /\ pushed' = Append(pushed, Len(pushed) + 1)
    /\ sc' = [i \in ScIds |->
                IF sc[i].pc \in {"snapshotted", "encoded"}
                THEN [sc[i] EXCEPT !.window = @ \cup {Len(pushed) + 1}]
                ELSE sc[i]]
    /\ UNCHANGED <<config, capacity, snap, buf_hist, files, lost, capVars, layerVars, cf, rec, storeVars, lockVars, inputVars,
                   appVars, now>>

\* save_clip: state.snapshot_frames(); "No frames in buffer" for an empty snapshot.
ScSnapshot(i) ==
    /\ sc[i].pc = "idle"
    /\ sc' = [sc EXCEPT ![i] =
                 IF Len(GetAll(data)) = 0
                 THEN [NoCall EXCEPT !.pc = "done", !.result = "no_frames"]
                 ELSE [NoCall EXCEPT !.pc = "snapshotted", !.frames = GetAll(data)]]
    /\ UNCHANGED <<bufVars, files, lost, capVars, layerVars, cf, rec, storeVars, lockVars, inputVars, appVars, now>>

\* save_clip: generate_filename, create_dir_all and encode_frames.  Creating the
\* directory or encoding may fail, and then nothing is written; otherwise the
\* file is created under the generated name.
ScEncode(i) ==
    /\ sc[i].pc = "snapshotted"
    /\ \/ /\ sc' = [sc EXCEPT ![i].pc = "encoded", ![i].name = GenerateFilename(now)]
          /\ files' = [files EXCEPT ![GenerateFilename(now)] = EncodedFile(sc[i].frames)]
       \/ /\ sc' = [sc EXCEPT ![i].pc = "done", ![i].name = GenerateFilename(now),
                                ![i].result = "failed"]
          /\ UNCHANGED files
    /\ UNCHANGED <<bufVars, lost, capVars, layerVars, cf, rec, storeVars, lockVars, inputVars, appVars, now>>

\* save_clip clearing only the frames it has saved.
ScClear_KeepUnsaved(i) ==
    /\ sc[i].pc = "encoded"
    /\ data' = SelectSeq(data, LAMBDA f : f \notin Range(sc[i].frames))
    /\ lost' = lost \cup sc[i].window
    /\ sc' = [sc EXCEPT ![i].pc = "done", ![i].result = "saved"]
    /\ UNCHANGED <<config, capacity, pushed, snap, buf_hist, files, capVars, layerVars, cf, rec, storeVars, lockVars, inputVars,
                   appVars, now>>

\* save_clip, Ok arm: state.buffer.clear(), then SaveResult { success: true }.
ScClear(i) ==
    /\ sc[i].pc = "encoded"
    /\ data' = RingClear(data)
    /\ lost' = lost \cup sc[i].window
    /\ sc' = [sc EXCEPT ![i].pc = "done", ![i].result = "saved"]
    /\ UNCHANGED <<config, capacity, pushed, snap, buf_hist, files, capVars, layerVars, cf, rec, storeVars, lockVars, inputVars,
                   appVars, now>>

\* The clock advances.
ClipTick ==
    /\ now < MaxClipTime
    /\ now' = now + 1
    /\ UNCHANGED <<otherVars, bufVars, lockVars, inputVars, appVars>>

ClipNext ==
    \/ ClipPush
    \/ \E i \in ScIds : ScSnapshot(i) \/ ScEncode(i) \/ ScClear(i)
    \/ ClipTick

ClipSpec == Init /\ [][ClipNext]_vars

\* --------------------------------------------------------------- CapSpec
\* A SimulatedCapture, its callers and its production threads.

\* The thread the next thread::spawn creates.
NextLoop == CHOOSE l \in LoopIds : loops[l].pc = "none" /\ \A k \in 1..(l - 1) : loops[k].pc # "none"

\* start() without the test of the flag: it always spawns.
CapStart_NoTest ==
    /\ \E l \in LoopIds : loops[l].pc = "none"
    /\ cap_active' = TRUE
    /\ loops' = [l \in LoopIds |->
                   IF l = NextLoop
                   THEN [NoLoop EXCEPT !.pc = "check", !.start_time = now]
                   ELSE [loops[l] EXCEPT !.after_stop = 0]]
    /\ cap_hist' = [last |-> "start_ok", stops |-> 0]
    /\ UNCHANGED <<clipVars, layerVars, cf, rec, storeVars, bufVars, lockVars, inputVars, appVars, now>>

\* SimulatedCapture::start: is_active.swap(true); Err(AlreadyRunning) if it was
\* set, otherwise the production thread is spawned (start_time = Instant::now()).
CapStart ==
    IF cap_active
    THEN /\ cap_hist' = [last |-> "AlreadyRunning", stops |-> 0]
         /\ UNCHANGED <<cap_active, loops, clipVars, layerVars, cf, rec, storeVars, bufVars, lockVars, inputVars, appVars, now>>
    ELSE /\ \E l \in LoopIds : loops[l].pc = "none"
         /\ cap_active' = TRUE
         /\ loops' = [l \in LoopIds |->
                        IF l = NextLoop
                        THEN [NoLoop EXCEPT !.pc = "check", !.start_time = now]
                        ELSE [loops[l] EXCEPT !.after_stop = 0]]
         /\ cap_hist' = [last |-> "start_ok", stops |-> 0]
         /\ UNCHANGED <<clipVars, layerVars, cf, rec, storeVars, bufVars, lockVars, inputVars, appVars, now>>

\* stop() that flips the flag.
CapStop_Toggle ==
    /\ cap_hist.stops < MaxStops
    /\ cap_active' = ~cap_active
    /\ cap_hist' = [last |-> "stop", stops |-> cap_hist.stops + 1]
    /\ UNCHANGED <<loops, clipVars, layerVars, cf, rec, storeVars, bufVars, lockVars, inputVars, appVars, now>>

\* SimulatedCapture::stop: is_active.store(false).
CapStop ==
    /\ cap_hist.stops < MaxStops
    /\ cap_active' = FALSE
    /\ cap_hist' = [last |-> "stop", stops |-> cap_hist.stops + 1]
    /\ UNCHANGED <<loops, clipVars, layerVars, cf, rec, storeVars, bufVars, lockVars, inputVars, appVars, now>>

\* A production loop that tests the flag only once, on entry.
LoopCheck_Once(l) ==
    /\ loops[l].pc = "check"
    /\ loops[l].frame_number < MaxCapFrames
    /\ loops' = [loops EXCEPT ![l].pc =
                    IF cap_active \/ loops[l].frame_number > 0 THEN "produce" ELSE "exited"]
    /\ UNCHANGED <<cap_active, cap_hist, clipVars, layerVars, cf, rec, storeVars, bufVars, lockVars, inputVars, appVars, now>>

\* Production thread: while is_active.load(SeqCst) { ... }
LoopCheck(l) ==
    /\ loops[l].pc = "check"
    /\ cap_active => loops[l].frame_number < MaxCapFrames
    /\ loops' = [loops EXCEPT ![l] =
                    IF cap_active THEN [@ EXCEPT !.pc = "produce"]
                    ELSE [NoLoop EXCEPT !.pc = "exited"]]
    /\ UNCHANGED <<cap_active, cap_hist, clipVars, layerVars, cf, rec, storeVars, bufVars, lockVars, inputVars, appVars, now>>

\* The loop body with the sleep computed from now: sleep(frame_duration).
LoopProduce_FromNow(l) ==
    /\ loops[l].pc = "produce"
    /\ \E called \in BOOLEAN :
          loops' = [loops EXCEPT ![l] =
                      [pc |-> "sleep",
                       frame_number |-> @.frame_number + 1,
                       start_time |-> @.start_time,
                       wake |-> now + CapInterval,
                       slept |-> CapInterval,
                       after_stop |-> IF called /\ cap_hist.last = "stop"
                                      THEN @.after_stop + 1 ELSE @.after_stop]]
    /\ UNCHANGED <<cap_active, cap_hist, clipVars, layerVars, cf, rec, storeVars, bufVars, lockVars, inputVars, appVars, now>>

\* Production thread, loop body: generate_test_frame and on_frame(frame) (called
\* unless compression failed), frame_number += 1, then
\* if expected > elapsed { sleep(expected - elapsed) }.
LoopProduce(l) ==
    /\ loops[l].pc = "produce"
    /\ \E called \in BOOLEAN :
          LET k == loops[l].frame_number + 1
              elapsed == now - loops[l].start_time
              expected == CapInterval * k
              sleeps == expected > elapsed
          IN  loops' = [loops EXCEPT ![l] =
                          [pc |-> IF sleeps THEN "sleep" ELSE "check",
                           frame_number |-> k,
                           start_time |-> @.start_time,
                           wake |-> IF sleeps THEN now + (expected - elapsed) ELSE 0,
                           slept |-> IF sleeps THEN expected - elapsed ELSE 0,
                           after_stop |-> IF called /\ cap_hist.last = "stop"
                                          THEN @.after_stop + 1 ELSE @.after_stop]]
    /\ UNCHANGED <<cap_active, cap_hist, clipVars, layerVars, cf, rec, storeVars, bufVars, lockVars, inputVars, appVars, now>>

\* Production thread: thread::sleep returns, not before the instant it was
\* asked to sleep until.
LoopWake(l) ==
    /\ loops[l].pc = "sleep"
    /\ now >= loops[l].wake \/ now = MaxCapTime
    /\ loops' = [loops EXCEPT ![l].pc = "check", ![l].wake = 0, ![l].slept = 0]
    /\ UNCHANGED <<cap_active, cap_hist, clipVars, layerVars, cf, rec, storeVars, bufVars, lockVars, inputVars, appVars, now>>

\* The monotonic clock advances.
CapTick ==
    /\ now < MaxCapTime
    /\ now' = now + 1
    /\ UNCHANGED <<otherVars, bufVars, lockVars, inputVars, appVars>>

LoopStep(l) == LoopCheck(l) \/ LoopProduce(l) \/ LoopWake(l)

CapNext ==
    \/ CapStart
    \/ CapStop
    \/ \E l \in LoopIds : LoopStep(l)
    \/ CapTick

CapSpec == Init /\ [][CapNext]_vars

\* A spawned thread keeps running and the clock keeps advancing.
CapFairness ==
    /\ \A l \in LoopIds : WF_vars(LoopStep(l))
    /\ WF_vars(CapTick)

FairCapSpec == Init /\ [][CapNext]_vars /\ CapFairness

\* ------------------------------------------------------------- ComboSpec
\* The InputHandler alone, with its combo reconfigured by its owner.

\* InputHandler::set_trigger_button
SetTriggerButton(button) ==
    /\ button # trigger_button
    /\ trigger_button' = button
    /\ UNCHANGED <<otherVars, bufVars, lockVars, current_state, was_pressed_last_frame,
                   last_trigger_time, det, debounce_duration, appVars, now>>

ComboNext ==
    \/ \E button \in TriggerButtons : SetTriggerButton(button)
    \/ \E sample \in ComboSamples : UpdateInput(sample)
    \/ DetCheck
    \/ DetTick

ComboSpec == Init /\ [][ComboNext]_vars

\* --------------------------------------------------------------- DebSpec
\* The InputHandler alone, with its debounce duration set by its owner.

\* InputHandler::set_debounce_ms
SetDebounce(ticks) ==
    /\ ticks # debounce_duration
    /\ debounce_duration' = ticks
    /\ UNCHANGED <<otherVars, bufVars, lockVars, current_state, was_pressed_last_frame,
                   last_trigger_time, det, trigger_button, appVars, now>>

DebNext ==
    \/ \E ticks \in 1..MaxDebounce : SetDebounce(ticks)
    \/ \E sample \in Samples : UpdateInput(sample)
    \/ DetCheck
    \/ DetTick

DebSpec == Init /\ [][DebNext]_vars

\* --------------------------------------------------------------- UpdSpec
\* The InputHandler alone, fed any number of samples between two checks.

\* update that follows the combo's release.
DetUpdate_TracksRelease(sample) ==
    /\ sample # current_state
    /\ current_state' = sample
    /\ was_pressed_last_frame' = (was_pressed_last_frame /\ IsTriggerPressed(sample))
    /\ det' = [det EXCEPT !.released_since_check = @ \/ ~IsTriggerPressed(sample)]
    /\ UNCHANGED <<otherVars, bufVars, lockVars, last_trigger_time,
                   trigger_button, debounce_duration, appVars, now>>

\* InputHandler::update(new_state), called by the handler's owner.
DetUpdate(sample) ==
    /\ sample # current_state
    /\ current_state' = sample
    /\ det' = [det EXCEPT !.released_since_check = @ \/ ~IsTriggerPressed(sample)]
    /\ UNCHANGED <<otherVars, bufVars, lockVars, was_pressed_last_frame, last_trigger_time,
                   trigger_button, debounce_duration, appVars, now>>

UpdNext ==
    \/ \E sample \in DetSamples : DetUpdate(sample)
    \/ DetCheck
    \/ DetTick

UpdSpec == Init /\ [][UpdNext]_vars

\* The inputs a combo is made of.
Constituents(button) ==
    CASE button = "LeftGripAndTrigger" -> {"left_grip", "left_trigger"}
      [] button = "RightGripAndTrigger" -> {"right_grip", "right_trigger"}
      [] button = "BothGrips" -> {"left_grip", "right_grip"}
      [] button = "Custom" -> {}
\* A step that is a call of check_save_triggered (or changes nothing).
IsCheckStep == UNCHANGED <<current_state, trigger_button, debounce_duration, now>>

\* ------------------------------------------------------------- StoreSpec
\* A StorageManager's directory is filled with clips, then cleanup_to_limit
\* runs on it.

StoreUnchanged == UNCHANGED <<clipVars, capVars, layerVars, cf, rec, fsys, dc, bufVars, lockVars,
                              inputVars, appVars, now>>

\* A clip file is written into the output directory.
StoreAdd(c) ==
    /\ cu.pc = "idle"
    /\ \A x \in clips : x.name # c.name
    /\ clips' = clips \cup {c}
    /\ UNCHANGED cu
    /\ StoreUnchanged

\* StorageManager::cleanup_to_limit(target_bytes) is called: deleted = 0.
CuCall(target) ==
    /\ cu.pc = "idle"
    /\ cu' = [NoCleanup EXCEPT !.pc = "loop", !.target_bytes = target,
                                !.found = Cardinality(clips)]
    /\ UNCHANGED clips
    /\ StoreUnchanged

\* One iteration of the loop that deletes clips.first().
CuLoop_NewestFirst ==
    /\ cu.pc = "loop"
    /\ IF TotalStorageUsed(clips) <= cu.target_bytes \/ clips = {}
       THEN /\ cu' = [cu EXCEPT !.pc = "done", !.result = "Ok"]
            /\ UNCHANGED clips
       ELSE \E c \in Newest(clips) :
              \/ /\ clips' = clips \ {c}
                 /\ cu' = [cu EXCEPT !.deleted = @ + 1, !.order = Append(@, c)]
              \/ /\ cu' = [cu EXCEPT !.pc = "done", !.result = "Err"]
                 /\ UNCHANGED clips
    /\ StoreUnchanged

\* One iteration of cleanup_to_limit's loop: break if used <= target_bytes or
\* no clip is listed, else delete_clip(clips.last()), which ends the call if it
\* fails, and deleted += 1.
CuLoop ==
    /\ cu.pc = "loop"
    /\ IF TotalStorageUsed(clips) <= cu.target_bytes \/ clips = {}
       THEN /\ cu' = [cu EXCEPT !.pc = "done", !.result = "Ok"]
            /\ UNCHANGED clips
       ELSE \E c \in Oldest(clips) :
              \/ /\ clips' = clips \ {c}
                 /\ cu' = [cu EXCEPT !.deleted = @ + 1, !.order = Append(@, c)]
              \/ /\ cu' = [cu EXCEPT !.pc = "done", !.result = "Err"]
                 /\ UNCHANGED clips
    /\ StoreUnchanged

StoreNext ==
    \/ \E c \in ClipInfos : StoreAdd(c)
    \/ \E target \in 0..MaxTarget : CuCall(target)
    \/ CuLoop

StoreSpec == Init /\ [][StoreNext]_vars

\* The thread that called cleanup_to_limit keeps running.
FairStoreSpec == Init /\ [][StoreNext]_vars /\ WF_vars(CuLoop)

\* -------------------------------------------------------------- PathSpec
\* StorageManager::delete_clip called with arbitrary paths.

\* StorageManager::delete_clip(path): PermissionDenied unless
\* path.starts_with(output_directory), else fs::remove_file(path).
DeleteClip(path) ==
    /\ IF ~StartsWith(path, OutputDirectory)
       THEN /\ dc' = [path |-> path, result |-> "PermissionDenied"]
            /\ UNCHANGED fsys
       ELSE IF Resolve(path) \in fsys
       THEN /\ dc' = [path |-> path, result |-> "Ok"]
            /\ fsys' = fsys \ {Resolve(path)}
       ELSE /\ dc' = [path |-> path, result |-> "Io"]
            /\ UNCHANGED fsys
    /\ UNCHANGED <<clips, cu, clipVars, capVars, layerVars, cf, rec, bufVars, lockVars,
                   inputVars, appVars, now>>

PathNext == \E path \in Paths : DeleteClip(path)

PathSpec == Init /\ [][PathNext]_vars

\* --------------------------------------------------------------- RecSpec
\* The start_recording and stop_recording commands, run concurrently by the
\* UI's async runtime on one AppState.

RecUnchanged == UNCHANGED <<clipVars, capVars, layerVars, cf, storeVars, bufVars, lockVars,
                            inputVars, appVars, now>>

\* start_recording up to its test of the flag: Ok(false) when recording.
StartRecordingCall(c) ==
    /\ rec.cmd[c] = "idle"
    /\ rec' = IF rec.is_recording
              THEN [rec EXCEPT !.result = "false"]
              ELSE [rec EXCEPT !.cmd[c] = "start_capture"]
    /\ RecUnchanged

\* start_recording: capture.start(callback) under the capture lock. The
\* source refuses when it is already running and may fail for a reason of
\* the platform; either way the command returns Err without storing the flag.
StartRecordingCapture(c) ==
    /\ rec.cmd[c] = "start_capture"
    /\ \E platform_ok \in BOOLEAN :
        rec' = IF rec.capture_active \/ ~platform_ok
               THEN [rec EXCEPT !.cmd[c] = "idle", !.result = "err"]
               ELSE [rec EXCEPT !.cmd[c] = "start_set", !.capture_active = TRUE]
    /\ RecUnchanged

\* start_recording: set_recording(true), Ok(true).
StartRecordingSet(c) ==
    /\ rec.cmd[c] = "start_set"
    /\ rec' = [rec EXCEPT !.cmd[c] = "idle", !.is_recording = TRUE, !.result = "true"]
    /\ RecUnchanged

\* stop_recording up to its test of the flag: Ok(false) when not recording.
StopRecordingCall(c) ==
    /\ rec.cmd[c] = "idle"
    /\ rec' = IF ~rec.is_recording
              THEN [rec EXCEPT !.result = "false"]
              ELSE [rec EXCEPT !.cmd[c] = "stop_capture"]
    /\ RecUnchanged

\* stop_recording: capture.stop() under the capture lock.
StopRecordingCapture(c) ==
    /\ rec.cmd[c] = "stop_capture"
    /\ rec' = [rec EXCEPT !.cmd[c] = "stop_set", !.capture_active = FALSE]
    /\ RecUnchanged

\* stop_recording: set_recording(false), Ok(true).
StopRecordingSet(c) ==
    /\ rec.cmd[c] = "stop_set"
    /\ rec' = [rec EXCEPT !.cmd[c] = "idle", !.is_recording = FALSE, !.result = "true"]
    /\ RecUnchanged

RecNext ==
    \E c \in CmdIds :
        \/ StartRecordingCall(c)
        \/ StartRecordingCapture(c)
        \/ StartRecordingSet(c)
        \/ StopRecordingCall(c)
        \/ StopRecordingCapture(c)
        \/ StopRecordingSet(c)

RecSpec == Init /\ [][RecNext]_vars

\* -------------------------------------------------------------- ConfSpec
\* A caller builds a Config, may validate it, and constructs from it.

ConfUnchanged == UNCHANGED <<clipVars, capVars, layerVars, storeVars, rec, bufVars, lockVars, inputVars,
                             appVars, now>>

\* A caller fills in a Config (its fields are public).
ConfBuild(cfg) ==
    /\ ~cf.has_input
    /\ cf' = [cf EXCEPT !.has_input = TRUE, !.input = cfg]
    /\ ConfUnchanged

\* The caller calls Config::validate on it.
ConfValidate ==
    /\ cf.has_input
    /\ ~cf.validated
    /\ cf' = [cf EXCEPT !.validated = TRUE, !.errors = Validate(cf.input)]
    /\ ConfUnchanged

\* SharedFrameBuffer::new(config.buffer_duration_seconds, config.target_fps)
ConfNewBuffer ==
    /\ cf.has_input
    /\ ~cf.buffer.exists
    /\ cf' = [cf EXCEPT !.buffer = [exists |-> TRUE, capacity |-> NewCapacity(cf.input)]]
    /\ ConfUnchanged

\* QuestShadowplay::new: Config::default() and a buffer made from it.
ConfNewApp ==
    /\ ~cf.app.exists
    /\ cf' = [cf EXCEPT !.app = [exists |-> TRUE, config |-> DefaultConfig,
                                 capacity |-> NewCapacity(DefaultConfig)]]
    /\ ConfUnchanged

ConfNext ==
    \/ \E cfg \in ConfigInputs : ConfBuild(cfg)
    \/ ConfValidate
    \/ ConfNewBuffer
    \/ ConfNewApp

ConfSpec == Init /\ [][ConfNext]_vars

\* ------------------------------------------------------------- LayerSpec
\* An OpenXRLayer over the shared buffer: the render thread calls on_end_frame,
\* another thread calls enable and disable.

\* OpenXRLayer::on_end_frame, entry: returns XR_SUCCESS at once if the layer is
\* not active, otherwise starts the loop over frame_data.eye_textures.
EfBegin(textures) ==
    /\ ef.pc = "idle"
    /\ ef.calls < MaxLayerCalls
    /\ ef' = IF layer_active
             THEN [ef EXCEPT !.pc = "loop", !.textures = textures, !.eye_index = 0,
                             !.entered = TRUE]
             ELSE [ef EXCEPT !.textures = textures, !.eye_index = 0, !.entered = FALSE,
                             !.calls = @ + 1, !.result = XR_SUCCESS]
    /\ UNCHANGED <<layer_active, frames_captured, frames_skipped, clipVars, capVars, cf, rec, storeVars,
                   bufVars, lockVars, inputVars, appVars, now>>

\* The loop body with a failure that ends the call.
EfEye_Fatal ==
    /\ ef.pc = "loop"
    /\ ef.eye_index < Len(ef.textures)
    /\ IF ef.textures[ef.eye_index + 1] = "Ok"
       THEN /\ data' = RingPush(data, capacity, Len(pushed) + 1)
            /\ pushed' = Append(pushed, Len(pushed) + 1)
            /\ frames_captured' = frames_captured + 1
            /\ ef' = [ef EXCEPT !.eye_index = @ + 1]
            /\ UNCHANGED frames_skipped
       ELSE /\ frames_skipped' = frames_skipped + 1
            /\ ef' = [ef EXCEPT !.pc = "idle", !.eye_index = @ + 1, !.calls = @ + 1,
                                !.result = XR_FAILURE]
            /\ UNCHANGED <<data, pushed, frames_captured>>
    /\ UNCHANGED <<layer_active, config, capacity, snap, buf_hist, clipVars, capVars, cf, rec, storeVars,
                   lockVars, inputVars, appVars, now>>

\* OpenXRLayer::on_end_frame, loop body for one eye texture: Ok(frame) is
\* pushed and counted in frames_captured, Err is counted in frames_skipped.
EfEye ==
    /\ ef.pc = "loop"
    /\ ef.eye_index < Len(ef.textures)
    /\ IF ef.textures[ef.eye_index + 1] = "Ok"
       THEN /\ data' = RingPush(data, capacity, Len(pushed) + 1)
            /\ pushed' = Append(pushed, Len(pushed) + 1)
            /\ frames_captured' = frames_captured + 1
            /\ UNCHANGED frames_skipped
       ELSE /\ frames_skipped' = frames_skipped + 1
            /\ UNCHANGED <<data, pushed, frames_captured>>
    /\ ef' = [ef EXCEPT !.eye_index = @ + 1]
    /\ UNCHANGED <<layer_active, config, capacity, snap, buf_hist, clipVars, capVars, cf, rec, storeVars,
                   lockVars, inputVars, appVars, now>>

\* OpenXRLayer::on_end_frame, after the loop: XR_SUCCESS.
EfReturn ==
    /\ ef.pc = "loop"
    /\ ef.eye_index = Len(ef.textures)
    /\ ef' = [ef EXCEPT !.pc = "idle", !.calls = @ + 1, !.result = XR_SUCCESS]
    /\ UNCHANGED <<layer_active, frames_captured, frames_skipped, clipVars, capVars, cf, rec, storeVars,
                   bufVars, lockVars, inputVars, appVars, now>>

\* OpenXRLayer::enable
LayerEnable ==
    /\ layer_active' = TRUE
    /\ UNCHANGED <<frames_captured, frames_skipped, ef, clipVars, capVars, cf, rec, storeVars, bufVars,
                   lockVars, inputVars, appVars, now>>

\* OpenXRLayer::disable
LayerDisable ==
    /\ layer_active' = FALSE
    /\ UNCHANGED <<frames_captured, frames_skipped, ef, clipVars, capVars, cf, rec, storeVars, bufVars,
                   lockVars, inputVars, appVars, now>>

LayerNext ==
    \/ \E textures \in EyeTextures : EfBegin(textures)
    \/ EfEye
    \/ EfReturn
    \/ LayerEnable
    \/ LayerDisable

LayerSpec == Init /\ [][LayerNext]_vars

\* A step in which on_end_frame handles an eye texture, in which it returns.
IsEyeStep == ef.pc = "loop" /\ ef'.eye_index = ef.eye_index + 1
IsEfReturn == ef'.calls = ef.calls + 1
\* The step pushes one frame and counts it; the step counts a skipped frame.
EyeCaptured ==
    /\ pushed' = Append(pushed, Len(pushed) + 1)
    /\ data' = RingPush(data, capacity, Len(pushed) + 1)
    /\ frames_captured' = frames_captured + 1
    /\ frames_skipped' = frames_skipped
EyeSkipped ==
    /\ pushed' = pushed
    /\ data' = data
    /\ frames_captured' = frames_captured
    /\ frames_skipped' = frames_skipped + 1
NothingCaptured ==
    /\ pushed' = pushed
    /\ data' = data
    /\ frames_captured' = frames_captured
    /\ frames_skipped' = frames_skipped

\* A step of CapSpec that is a call of start(), of stop(). (A start() that fails
\* right after one that failed changes nothing at all and is a stuttering step.)
IsStartCall == cap_hist' # cap_hist /\ cap_hist'.last \in {"start_ok", "AlreadyRunning"}
IsStopCall == cap_hist' # cap_hist /\ cap_hist'.last = "stop"
\* The threads that were spawned and have not left their loop.
Running == {l \in LoopIds : loops[l].pc \in {"check", "produce", "sleep"}}
Spawned == {l \in LoopIds : loops[l].pc # "none"}

\* ================================================================ claims

\* C1: at most one save is in flight at any time: two requests never both
\* claim the flag and both start an encode.
C1_AtMostOneSaveInFlight == Cardinality(InFlight) <= 1

\* C2: a save request that finds the saving flag true is a no-op: it returns
\* "not started" and leaves the flag, the buffer, the lock and the save
\* threads as they were (no snapshot, no encode dispatched).
C2_RejectedRequestIsNoOp ==
    [][\A c \in Callers :
          (pc[c] = "ts_load" /\ is_saving /\ pc'[c] # "ts_load")
          => /\ pc'[c] = "idle"
             /\ ts_outcome' = "not_started"
             /\ UNCHANGED <<is_saving, data, pushed, capacity, saves, rw_writer,
                            rw_readers>>]_vars

\* C2 witness: a request was turned away while a save was in flight, and that
\* save is still in flight with the flag set.
C2_Witness ==
    /\ ts_outcome = "not_started"
    /\ is_saving
    /\ InFlight # {}

\* C3: every claimed save eventually releases the saving flag, whether the
\* encode succeeds or fails.
C3_FlagEventuallyReleased == is_saving ~> ~is_saving

\* C3 witness: a save whose encode failed has finished and the flag is false.
C3_Witness ==
    /\ ~is_saving
    /\ \E s \in SaveIds : saves[s].pc = "done" /\ saves[s].result = "err"

\* C4: the frames a save encodes are the buffer contents at the moment the
\* request returned; no frame pushed later appears in the clip.
C4_SnapshotIsBufferAtRequest ==
    \A s \in SaveIds :
        saves[s].pc = "encode" => saves[s].frames = saves[s].at_request

\* C5: a save holds the buffer lock only inside snapshot(): a save that is
\* encoding or finishing holds no guard, and whenever no save is inside
\* snapshot() a capture call waiting to push finds the lock free.
C5_CaptureNotBlockedBySave ==
    /\ \A s \in SaveIds : saves[s].pc \in {"encode", "release", "done"} => s \notin rw_readers
    /\ \A c \in Callers :
          (pc[c] = "ofc_lock" /\ \A s \in SaveIds : saves[s].pc # "reading")
          => (rw_writer = "none" /\ rw_readers = {})

\* C5 witness: a frame was stored in the buffer while a save was encoding (the
\* newest frame of the buffer is not part of that save's snapshot).
C5_Witness ==
    \E s \in SaveIds, c \in Callers :
        /\ saves[s].pc = "encode"
        /\ pc[c] = "ofc_check"
        /\ Len(data) > 0
        /\ \A i \in 1..Len(saves[s].frames) : saves[s].frames[i] # data[Len(data)]

\* C6: shutdown() returns only when no save is in flight.
C6_ShutdownReturnsWithNoSaveInFlight ==
    [][(shutdown_pc = "polling" /\ shutdown_pc' = "returned") => InFlight' = {}]_vars

\* C7: len() <= capacity after any sequence of push and clear, for every
\* capacity the buffer can be constructed with.
C7_LenWithinCapacity == Len(data) <= capacity

\* C8: get_all() is the last `capacity` pushed items in push order (all of
\* them when fewer were pushed), for every capacity.
C8_LastCapacityItems == GetAll(data) = LastN(pushed, capacity)

\* C9: the snapshot a save thread reads is a contiguous run of the push
\* sequence in push order that ends at the most recent completed push.
C9_SnapshotIsRecentRun ==
    [][\A s \in SaveIds :
          (saves[s].pc = "reading" /\ saves'[s].pc = "encode")
          => IsSuffix(saves'[s].frames, pushed)]_vars

\* C9 witness: a snapshot of a buffer that has wrapped around was read by a
\* save thread that ran alongside the producer (a push completed between the
\* thread's spawn and its read).
C9_Witness ==
    \E s \in SaveIds :
        /\ saves[s].pc = "encode"
        /\ Len(saves[s].frames) = capacity
        /\ saves[s].frames[1] > 1
        /\ saves[s].frames # saves[s].at_request

\* C10: snapshot() does not mutate the buffer: frames, order, count and
\* capacity are the same before and after each of its steps.
C10_SnapshotKeepsBuffer ==
    [][\A s \in SaveIds :
          (saves[s].pc \in {"spawned", "reading"} /\ saves'[s].pc # saves[s].pc)
          => UNCHANGED <<data, capacity, pushed>>]_vars

\* C10 witness: a snapshot of a non-empty buffer was taken and the buffer
\* still holds the same frames.
C10_Witness ==
    \E s \in SaveIds :
        /\ saves[s].pc = "encode"
        /\ Len(saves[s].frames) > 0
        /\ saves[s].frames = data

\* C11 as stated: every snapshot() since the last clear() returned what the
\* first one returned.
C11_SnapshotsSinceClearIdentical ==
    buf_hist.first_snap # <<>> => snap = buf_hist.first_snap[1]

\* C11 amended: calling snapshot() any number of times with neither a push nor
\* a clear() in between yields identical results.
C11_RepeatedSnapshotIdentical ==
    [][(buf_hist.snap_calls >= 1 /\ buf_hist'.snap_calls = buf_hist.snap_calls + 1)
       => snap' = snap]_vars

\* C11 witness: a buffer that has wrapped around was snapshotted twice in a row.
C11_Witness ==
    /\ buf_hist.snap_calls >= 2
    /\ capacity > 0
    /\ Len(pushed) > capacity
    /\ Len(snap) = capacity

\* C12: clear() leaves the buffer empty (len 0, is_empty, empty snapshot) and
\* the capacity unchanged, and from then on the buffer holds what a new buffer
\* of that capacity holds after the same pushes.
C12_ClearEmptiesKeepsCapacity ==
    [][/\ buf_hist'.op = "clear"
          => /\ Len(data') = 0
             /\ IsEmpty(data')
             /\ GetAll(data') = <<>>
             /\ capacity' = capacity
       /\ data' = Replay(pushed', capacity)]_vars

\* C12 witness: a buffer that held frames (a snapshot of them was taken) has
\* just been cleared.
C12_Witness ==
    /\ buf_hist.op = "clear"
    /\ Len(snap) > 0
    /\ capacity > 0
    /\ Len(data) = 0

\* C13: fill_percentage() is the number frame_count()/capacity(), in [0,1]:
\* 0 for an empty buffer, 1 exactly when the buffer is full, and one half when
\* a buffer of even capacity holds capacity/2 frames.
C13_FillPercentageInUnitInterval ==
    LET f == FillPercentage(data, capacity)
    IN  /\ f.kind = "ratio"
        /\ 0 <= f.num /\ f.num <= f.den
        /\ f.num * capacity = Len(data) * f.den
        /\ IsEmpty(data) => f.num = 0
        /\ f.num = f.den <=> IsFull(data, capacity)
        /\ (capacity % 2 = 0 /\ 2 * Len(data) = capacity) => 2 * f.num = f.den

\* C14: the capacity is ceil(duration_seconds x target_rate), the least whole
\* number of frames not below the product, and no operation changes it.
C14_CapacityIsCeilOfProduct ==
    [][LET twice == config.buffer_duration_seconds * config.target_fps
       IN  /\ 2 * capacity >= twice
           /\ 2 * (capacity - 1) < twice
           /\ capacity' = capacity
           /\ config' = config]_vars

\* C14 witness: half a second at rate 3 gave capacity 2, and the buffer has
\* since been filled past its capacity and cleared.
C14_Witness ==
    /\ config = [buffer_duration_seconds |-> 1, target_fps |-> 3]
    /\ capacity = 2
    /\ Len(snap) = 2
    /\ buf_hist.op = "clear"

\* C15: the detector emits an event only on a sample where the combo is
\* engaged and was not engaged on the preceding sample: none while the combo
\* stays held, none on the sample where it is released.
C15_EventOnlyOnRisingEdge ==
    [][(det' # det /\ det'.emitted)
       => (IsTriggerPressed(current_state) /\ ~det.prev_pressed)]_vars

\* C15 witness: the combo was sampled twice during one hold and one event
\* was emitted for it.
C15_Witness ==
    /\ det.cycle_samples = 2
    /\ det.cycle_events = 1
    /\ ~det.emitted

\* C16 as stated: every press-and-hold cycle that was sampled has produced
\* exactly one event.
C16_OneEventPerHold == det.cycle_samples >= 1 => det.cycle_events = 1

\* C16 amended: a press-and-hold cycle whose rising edge is not inside the
\* cooldown of the last emitted event produces exactly one event, however many
\* samples are taken during the hold.
C16_OneEventPerHoldOutsideCooldown ==
    (det.cycle_samples >= 1 /\ ~det.in_cooldown) => det.cycle_events = 1

\* C16 witness: a second hold, begun just as the cooldown of the first event
\* ended, was sampled twice and has its one event.
C16_Witness ==
    /\ det.cycle_samples = 2
    /\ ~det.in_cooldown
    /\ det.cycle_events = 1
    /\ det.last_event = DebounceTicks
    /\ now = DebounceTicks

\* C17: an event is never emitted less than debounce_window after the last
\* emitted event, so of two presses less than debounce_window apart only the
\* first produces one.
C17_NoEventInsideCooldown ==
    [][(det' # det /\ det'.emitted)
       => (det.last_event = NoTime \/ now - det.last_event >= DebounceTicks)]_vars

\* C17 witness: a second press in the same tick as the event of the first has
\* been sampled and produced nothing.
C17_Witness ==
    /\ det.cycle_samples = 1
    /\ det.in_cooldown
    /\ det.cycle_events = 0
    /\ det.last_event = now

\* C18: a hold whose rising edge was suppressed by the cooldown produces no
\* event at all, also when it lasts past the end of the debounce window.
C18_SuppressedHoldStaysSilent == det.in_cooldown => det.cycle_events = 0

\* C18 witness: a suppressed hold was sampled again after the debounce window
\* had ended, and still no event was emitted.
C18_Witness ==
    /\ det.in_cooldown
    /\ det.cycle_samples = 2
    /\ det.cycle_events = 0
    /\ det.last_event # NoTime
    /\ now - det.last_event >= DebounceTicks

\* C19: while the saving flag is true the detector is not sampled: its edge
\* state and its last-trigger time are unchanged by frames captured then.
C19_DetectorNotSampledWhileSaving ==
    [][is_saving => UNCHANGED <<was_pressed_last_frame, last_trigger_time>>]_vars

\* C20: a save whose encode fails does not touch the buffer, neither when the
\* encode fails nor when the save completes; its completion leaves the saving
\* flag false, and a trigger that finds the flag false is accepted.
C20_FailedSaveLeavesBufferAndFlag ==
    [][/\ \A s \in SaveIds :
            /\ (saves[s].pc = "encode" /\ saves'[s].pc = "release" /\ saves'[s].result = "err")
               => UNCHANGED <<data, pushed, capacity>>
            /\ (saves[s].pc = "release" /\ saves[s].result = "err" /\ saves'[s].pc = "done")
               => (~is_saving' /\ UNCHANGED <<data, pushed, capacity>>)
       /\ \A c \in Callers :
            (pc[c] = "ts_load" /\ ~is_saving /\ pc'[c] # pc[c]) => pc'[c] = "ts_store"]_vars

\* C20 witness: the first save failed and has completed, the buffer still
\* holds its frames, and a later trigger has started a second save.
C20_Witness ==
    /\ saves[1].pc = "done"
    /\ saves[1].result = "err"
    /\ saves[2].pc = "spawned"
    /\ saves[2].at_request = data
    /\ Len(data) = capacity
    /\ is_saving
    /\ ts_outcome = "started"

C22_EmptySnapshotIsFailedSave ==
    [][\A s \in SaveIds :
          (saves[s].pc = "encode" /\ Len(saves[s].frames) = 0 /\ saves'[s].pc = "release")
          => saves'[s].result = "err"]_vars

\* C23: reading back the container written for a non-empty frame sequence
\* yields exactly that sequence.
C23_ReadBackYieldsFrames ==
    \A name \in FileNames :
        files[name].exists
        => ContainerRead(files[name].bytes)
           = [ok |-> TRUE, error |-> "none", frames |-> files[name].source]

\* C29: two saves never receive the same filename.
C29_FilenamesAreUnique ==
    \A i, j \in ScIds :
        (i # j /\ sc[i].name # NoName /\ sc[j].name # NoName) => sc[i].name # sc[j].name

\* C24: start() on a source that is already active fails with AlreadyRunning,
\* leaves is_active true and changes no thread's state; no step taken while
\* the source is active spawns a thread.
C24_StartWhileActiveFails ==
    [][/\ (IsStartCall /\ cap_active) =>
             /\ cap_hist'.last = "AlreadyRunning"
             /\ cap_active'
             /\ loops' = loops
       /\ cap_active => {l \in LoopIds : loops'[l].pc # "none"} = Spawned]_vars

C24_Witness == cap_hist.last = "AlreadyRunning" /\ cap_active /\ Running # {}

\* C25: every stop() leaves is_active false and touches no thread, whether the
\* source was active, already stopped or never started; and a start() on the
\* stopped source succeeds and spawns exactly one thread.
C25_StopIsIdempotent ==
    [][/\ IsStopCall => (~cap_active' /\ loops' = loops)
       /\ (IsStartCall /\ ~cap_active) =>
             /\ cap_hist'.last = "start_ok"
             /\ cap_active'
             /\ Cardinality({l \in LoopIds : loops'[l].pc # "none"})
                  = Cardinality(Spawned) + 1]_vars

\* started and then stopped twice
C25_Witness == cap_hist.stops = 2 /\ ~cap_active /\ Running # {}

\* started, stopped and started again
C25_WitnessRestarted == cap_hist.last = "start_ok" /\ Cardinality(Spawned) = 2

\* stopped though never started
C25_WitnessNeverStarted == cap_hist.last = "stop" /\ ~cap_active /\ Spawned = {}

\* C26: after stop() with no later start(), is_active stays false, each
\* production loop calls on_frame at most once more, and each loop exits.
C26_AtMostOneFrameAfterStop ==
    \A l \in LoopIds :
        /\ loops[l].after_stop <= 1
        /\ cap_hist.last = "stop" => ~cap_active

C26_LoopExitsAfterStop ==
    \A l \in LoopIds :
        (cap_hist.last = "stop" /\ l \in Running) ~> (loops[l].pc = "exited" \/ cap_hist.last # "stop")

C26_StoppedLoopExits == []C26_AtMostOneFrameAfterStop /\ C26_LoopExitsAfterStop

\* a loop that delivered one frame after stop() and has not yet seen the flag
C26_Witness == \E l \in LoopIds : loops[l].after_stop = 1 /\ loops[l].pc = "sleep" /\ ~cap_active

C28_WitnessDisabled == ef.calls >= 1 /\ ~ef.entered /\ ef.pc = "idle" /\ ef.textures # <<>>

\* C27: the default configuration has no validation error, and a frame buffer
\* or an application object exists only for a configuration that has none
\* (duration in [5, 60] s, rate in [30, 144], bitrate in [1e6, 1e8]).
C27_InvalidConfigCreatesNothing ==
    /\ Validate(DefaultConfig) = {}
    /\ cf.buffer.exists => Validate(cf.input) = {}
    /\ cf.app.exists => Validate(cf.app.config) = {}

\* C31: a check finds the combo engaged iff the combo is not Custom and every
\* constituent input of the configured combo exceeds 0.9 on the current sample
\* (so no other input matters), and a Custom combo never emits an event.
C31_ComboEngagedIffAllConstituentsPressed ==
    [][IsCheckStep =>
          /\ was_pressed_last_frame' =
                (/\ trigger_button # "Custom"
                 /\ \A f \in Constituents(trigger_button) : current_state[f] > PressThreshold)
          /\ (trigger_button = "Custom" /\ det' # det) => ~det'.emitted]_vars

\* BothGrips engaged and emitted with both triggers at rest
C31_Witness ==
    /\ trigger_button = "BothGrips"
    /\ was_pressed_last_frame
    /\ det.emitted
    /\ current_state.left_trigger = 0
    /\ current_state.right_trigger = 0

\* C32: cleanup_to_limit deletes clips oldest first (every clip it deleted was
\* no newer than the next one it deleted and than every clip it left), returns
\* the number of clips it deleted, on a successful return leaves clips of total
\* size <= target or no clip at all, and always returns.
C32_CleanupState ==
    /\ \A i \in 1..Len(cu.order) :
          /\ \A j \in (i + 1)..Len(cu.order) :
                cu.order[i].modified_time <= cu.order[j].modified_time
          /\ \A c \in clips : cu.order[i].modified_time <= c.modified_time
    /\ cu.deleted = Len(cu.order)
    /\ cu.pc # "idle" => cu.deleted = cu.found - Cardinality(clips)
    /\ (cu.pc = "done" /\ cu.result = "Ok") =>
          (TotalStorageUsed(clips) <= cu.target_bytes \/ clips = {})

C32_CleanupToLimit == []C32_CleanupState /\ (cu.pc = "loop" ~> cu.pc = "done")

\* a cleanup that deleted the two oldest of three clips and kept the newest
C32_Witness ==
    /\ cu.pc = "done"
    /\ cu.result = "Ok"
    /\ cu.deleted = 2
    /\ \E c \in clips : c.modified_time > cu.order[2].modified_time

\* C39: delete_clip removes no file located outside the output directory, and
\* called with a path that resolves to a location outside it, it returns
\* PermissionDenied and deletes nothing.
C39_DeletesOnlyInsideOutputDirectory ==
    [][/\ \A f \in fsys \ fsys' : StartsWith(f, OutputDirectory)
       /\ (dc' # dc /\ ~StartsWith(Resolve(dc'.path), OutputDirectory)) =>
             (dc'.result = "PermissionDenied" /\ fsys' = fsys)]_vars

\* C33: at any time at most one production loop of the capture source is
\* running, and at most one is in its loop body, invoking on_frame.
C33_AtMostOneProductionLoop ==
    /\ Cardinality(Running) <= 1
    /\ Cardinality({l \in LoopIds : loops[l].pc = "produce"}) <= 1

\* C34: last_trigger_time changes only in a check that returns true, which
\* sets it to the current time, and a check that detects a rising edge at
\* least debounce_duration after the last event (or before any event) returns
\* true.
C34_CooldownRestartsOnlyOnEvent ==
    [][/\ last_trigger_time' # last_trigger_time =>
             (IsCheckStep /\ det'.emitted /\ det' # det /\ last_trigger_time' = now)
       /\ (/\ IsCheckStep
           /\ det' # det
           /\ IsTriggerPressed(current_state)
           /\ ~det.prev_pressed
           /\ (det.last_event = NoTime \/ now - det.last_event >= debounce_duration))
          => det'.emitted]_vars

\* an event emitted exactly one debounce after the previous one, though a
\* rising edge was suppressed in between
C34_Witness ==
    /\ debounce_duration = 2
    /\ det.emitted
    /\ det.after_suppressed
    /\ last_trigger_time = 2
    /\ now = 2

\* C36: update changes neither was_pressed_last_frame nor last_trigger_time,
\* and a check that finds the combo engaged, as the check before it did,
\* returns false, whatever samples were fed in between.
C36_UpdateOnlyReplacesSample ==
    [][/\ current_state' # current_state =>
             UNCHANGED <<was_pressed_last_frame, last_trigger_time>>
       /\ <<was_pressed_last_frame, last_trigger_time>>' # <<was_pressed_last_frame, last_trigger_time>>
             => IsCheckStep
       /\ (IsCheckStep /\ det' # det /\ det.prev_pressed /\ IsTriggerPressed(current_state))
             => ~det'.emitted]_vars

\* a release and a new press between two checks, the second check made when
\* the cooldown was over, and no event
C36_Witness ==
    /\ det.missed_press
    /\ ~det.emitted
    /\ det.last_event # NoTime
    /\ now - det.last_event >= debounce_duration

\* C35: a trigger edge handled while a save is in flight is dropped: the
\* trigger_save call that on_frame_captured makes for it sets no flag and
\* spawns nothing; and a save is requested from on_frame_captured only in a call
\* whose own check detected a rising edge, so nothing is started later for the
\* dropped edge.
C35_EdgeDuringSaveIsDropped ==
    [][/\ (pc["capture"] = "ts_load" /\ borrow = "capture" /\ InFlight # {}
           /\ pc'["capture"] # "ts_load")
          => (pc'["capture"] = "idle" /\ UNCHANGED <<is_saving, saves>>)
       /\ (pc["capture"] = "ofc_check" /\ pc'["capture"] = "ts_load") => CheckReturns]_vars

\* C37: once shutdown() has been called the saving flag is never set, so it
\* is false after shutdown() has returned.
C37_NoSaveAfterShutdown ==
    [][shutdown_pc # "idle" => (is_saving' => is_saving)]_vars

\* C38: whenever no recording command is running, is_recording = true
\* implies that the capture source is active.
C38_RecordingImpliesCaptureActive ==
    ((\A c \in CmdIds : rec.cmd[c] = "idle") /\ rec.is_recording) => rec.capture_active

====
